---- MODULE Spec2Model ----
(***************************************************************************)
(* SDD++ : the C++ handle/algebra layer over libsdd.                       *)
(*                                                                         *)
(* Three groups of state are modelled:                                     *)
(*   - managers, node handles (std::shared_ptr control blocks whose        *)
(*     deleter calls sdd_deref) and the engine-side reference counts;      *)
(*   - the derived algorithms condition(lits), value(lit) and model(),     *)
(*     over nodes taken as the Boolean functions the engine keeps          *)
(*     canonical (a node is the set of its satisfying assignments);        *)
(*   - manager::literal with the add_var_* operations.                     *)
(* The engine (libsdd) is external: its primitives are modelled by what    *)
(* they compute (Boolean functions) or, where only the identity of the     *)
(* returned node matters, by a nondeterministic choice of engine node.     *)
(***************************************************************************)
EXTENDS Integers, Sequences, FiniteSets, TLC

VARIABLES
  \* ---- managers and handles
  mgrObj,       \* manager object -> is it constructed
  mgrEngine,    \* manager object -> manager::_mgr (0 is the empty unique_ptr)
  engineState,  \* engine instance -> "unborn" | "alive" | "freed"
  rcInit,       \* the reference count the engine gives a node no handle names
  rc,           \* engine instance -> engine node -> sdd reference count
  slots,        \* the client's node variables
  blocks,       \* the shared_ptr control blocks
  elemsVec,     \* the client's std::vector<element>
  lastDeref,    \* the last sdd_deref call issued by a deleter
  lastCross,    \* the last binary algebra call
  \* ---- derived algorithms
  varCount,     \* manager::var_count() of the manager owning fnode
  fnode,        \* the node the algorithm is applied to
  pc,           \* position of the call
  condLits, condRes,        \* condition(lits): argument, result
  valLit, valRes,           \* value(lit): argument, result
  mVars, mI, mN, mModel,    \* model(): vars, i, n, model
  \* ---- manager::literal
  lVarCount,    \* sdd_manager_var_count
  lOrder,       \* sdd_manager_var_order
  lastLit       \* the last manager::literal call

hvars == <<mgrObj, mgrEngine, engineState, rcInit, rc, slots, blocks, elemsVec,
           lastDeref, lastCross>>
fvars == <<varCount, fnode, pc, condLits, condRes, valLit, valRes,
           mVars, mI, mN, mModel>>
lvars == <<lVarCount, lOrder, lastLit>>
vars == <<hvars, fvars, lvars>>

(***************************************************************************)
(* Bounds                                                                  *)
(***************************************************************************)
MaxSlots == 2
NumNodes == 1
MaxElems == 1

Managers == {1, 2}
Engines == {1, 2}
Nodes == 1..NumNodes
SlotIds == 1..MaxSlots
MaxBlocks == MaxSlots + 2 * MaxElems + 4
BlockIds == 1..MaxBlocks

(***************************************************************************)
(* Managers, handles, reference counts                                     *)
(***************************************************************************)
NullHandle == [mgr |-> 0, blk |-> 0]
NoObject == [st |-> "none", mgr |-> 0, blk |-> 0]
FreeBlock == [node |-> 0, eng |-> 0, mgr |-> 0, uses |-> 0]
NoDeref == [refd |-> 0, target |-> 0, alive |-> FALSE]
NoCross == [op |-> "none", foreign |-> FALSE, threw |-> FALSE, produced |-> FALSE]

\* The heap as the operations below thread it; h is the handle just built.
World == [blocks |-> blocks, rc |-> rc, last |-> lastDeref, h |-> NullHandle]

FreeIds(bs) == {b \in BlockIds : bs[b].uses = 0}
NewBlockId(bs) == CHOOSE b \in FreeIds(bs) : \A c \in FreeIds(bs) : b <= c

\* sdd_ref(n, mgr->sdd()) as node::node calls it
RefCall(r, n, e) == [r EXCEPT ![e][n] = @ + 1]

\* sdd_deref(_n, mgr->sdd()) as the deleter calls it. A call whose manager
\* argument is not the engine the node lives in (the empty manager, another
\* engine) is undefined: the node's count is decremented or it is not (ub).
DerefCall(r, n, home, target, ub) ==
  IF target = home \/ ub THEN [r EXCEPT ![home][n] = @ - 1] ELSE r

NodeCtor_NoRef(w, m, n) ==
  LET b == NewBlockId(w.blocks) IN
  [w EXCEPT !.blocks[b] = [node |-> n, eng |-> mgrEngine[m], mgr |-> m, uses |-> 1],
            !.h = [mgr |-> m, blk |-> b]]

\* node::node(manager *mgr, SddNode *n)
NodeCtor(w, m, n) ==
  LET b == NewBlockId(w.blocks) IN
  [w EXCEPT !.blocks[b] = [node |-> n, eng |-> mgrEngine[m], mgr |-> m, uses |-> 1],
            !.rc = RefCall(w.rc, n, mgrEngine[m]),
            !.h = [mgr |-> m, blk |-> b]]

\* the deleter: [=](SddNode *_n) { sdd_deref(_n, mgr->sdd()); }
\* mgr is the captured manager pointer, mgr->sdd() is read when it runs
Deleter(w, b, ub) ==
  LET blk == w.blocks[b] IN
  [w EXCEPT !.blocks[b] = FreeBlock,
            !.rc = DerefCall(w.rc, blk.node, blk.eng, mgrEngine[blk.mgr], ub),
            !.last = [refd |-> blk.eng, target |-> mgrEngine[blk.mgr],
                      alive |-> engineState[blk.eng] = "alive"]]

\* copy of the shared_ptr member
CopyHandle(w, h) ==
  IF h.blk = 0 THEN w ELSE [w EXCEPT !.blocks[h.blk].uses = @ + 1]

ReleaseHandle_DerefEach(w, h, ub) ==
  IF h.blk = 0 THEN w
  ELSE IF w.blocks[h.blk].uses > 1
       THEN [Deleter(w, h.blk, ub) EXCEPT
               !.blocks[h.blk] = [w.blocks[h.blk] EXCEPT !.uses = @ - 1]]
       ELSE Deleter(w, h.blk, ub)

\* release of the shared_ptr member: the deleter runs for the last owner
ReleaseHandle(w, h, ub) ==
  IF h.blk = 0 THEN w
  ELSE IF w.blocks[h.blk].uses > 1
       THEN [w EXCEPT !.blocks[h.blk].uses = @ - 1]
       ELSE Deleter(w, h.blk, ub)

HandleOf(s) == [mgr |-> slots[s].mgr, blk |-> slots[s].blk]
Obj(h) == [st |-> "obj", mgr |-> h.mgr, blk |-> h.blk]

\* the reference counts stay below this (a count only grows past the live
\* handles when a misdirected deref left it undecremented)
RefCap == rcInit + MaxSlots + 2 * MaxElems
Room(m) == \A n \in Nodes : rc[mgrEngine[m]][n] <= RefCap

\* a handle an operation may be applied to: it holds a node and its manager
\* object still owns the engine the node lives in
Usable(h) ==
  /\ h.blk # 0
  /\ mgrEngine[h.mgr] # 0
  /\ mgrEngine[h.mgr] = blocks[h.blk].eng
  /\ engineState[blocks[h.blk].eng] = "alive"

\* some deleter of this step may run with a manager argument that is not the
\* node's engine
Misdirected == \E b \in BlockIds :
  blocks[b].uses > 0 /\ mgrEngine[blocks[b].mgr] # blocks[b].eng
UbChoices == IF Misdirected THEN BOOLEAN ELSE {FALSE}

\* Control blocks are heap addresses: states are kept up to their renaming,
\* the live blocks numbered in the order the client's variables name them.
\* (The heap an operation leaves is bound by \E over a singleton, here and in
\* the operations below, so that it is computed once.)
RECURSIVE FirstSeen(_, _, _)
FirstSeen(ids, i, acc) ==
  IF i > Len(ids) THEN acc
  ELSE FirstSeen(ids, i + 1,
         IF ids[i] = 0 \/ \E k \in 1..Len(acc) : acc[k] = ids[i]
         THEN acc ELSE Append(acc, ids[i]))

RECURSIVE ElemIds(_, _, _)
ElemIds(vec, i, acc) ==
  IF i > Len(vec) THEN acc
  ELSE ElemIds(vec, i + 1, acc \o <<vec[i].prime.blk, vec[i].sub.blk>>)

Renumber(order, b) ==
  IF b = 0 THEN 0 ELSE CHOOSE k \in 1..Len(order) : order[k] = b

Store(w, newSlots, newElems) ==
  \E order \in {FirstSeen([s \in SlotIds |-> newSlots[s].blk]
                              \o ElemIds(newElems, 1, <<>>), 1, <<>>)} :
  /\ blocks' = [b \in BlockIds |->
                  IF b <= Len(order) THEN w.blocks[order[b]] ELSE FreeBlock]
  /\ rc' = w.rc
  /\ lastDeref' = w.last
  /\ slots' = [s \in SlotIds |->
                 [newSlots[s] EXCEPT !.blk = Renumber(order, @)]]
  /\ elemsVec' = [i \in 1..Len(newElems) |->
                    [prime |-> [newElems[i].prime EXCEPT !.blk = Renumber(order, @)],
                     sub |-> [newElems[i].sub EXCEPT !.blk = Renumber(order, @)]]]
  /\ UNCHANGED <<fvars, lvars>>

\* operator&&(node n1, node n2), operator||(node n1, node n2): the operands are
\* taken by value, the result is built in n1's manager
BinaryCall(w, h1, h2, n, ub) ==
  LET w1 == CopyHandle(CopyHandle(w, h1), h2)
      w2 == NodeCtor(w1, h1.mgr, n)
  IN ReleaseHandle(ReleaseHandle(w2, h2, ub), h1, ub)

\* implies(node n1, node n2) == !n1 || n2
ImpliesCall(w, h1, h2, nNeg, n, ub) ==
  LET w1 == CopyHandle(CopyHandle(w, h1), h2)
      w2 == NodeCtor(w1, h1.mgr, nNeg)
      w3 == BinaryCall(w2, w2.h, h2, n, ub)
      w4 == ReleaseHandle(w3, w2.h, ub)
  IN ReleaseHandle(ReleaseHandle(w4, h2, ub), h1, ub)

\* iff(node n1, node n2) == implies(n1, n2) && implies(n2, n1)
IffCall(w, h1, h2, ns, ub) ==
  LET w1 == CopyHandle(CopyHandle(w, h1), h2)
      w2 == ImpliesCall(w1, h1, h2, ns[1], ns[2], ub)
      w3 == ImpliesCall(w2, h2, h1, ns[3], ns[4], ub)
      w4 == BinaryCall(w3, w2.h, w3.h, ns[5], ub)
      w5 == ReleaseHandle(ReleaseHandle(w4, w3.h, ub), w2.h, ub)
  IN ReleaseHandle(ReleaseHandle(w5, h2, ub), h1, ub)

\* The operands live in different engines. No operator compares
\* n1.manager() with n2.manager(): the engine primitive is called with
\* n1.manager()->sdd() and both nodes, nothing is thrown, a node is built.
Crossed(h1, h2) ==
  h1.blk # 0 /\ h2.blk # 0 /\ blocks[h1.blk].eng # blocks[h2.blk].eng
RecordBinop(op, h1, h2) ==
  lastCross' = IF Crossed(h1, h2)
               THEN [op |-> op, foreign |-> TRUE, threw |-> FALSE,
                     produced |-> TRUE]
               ELSE lastCross

\* node t = <result>;  or  t = <result>;  (move assignment from the temporary:
\* the node t held is released)
IntoSlot(w, t, ub) ==
  IF slots[t].st = "none" THEN w ELSE ReleaseHandle(w, HandleOf(t), ub)

\* manager::top, manager::bottom, manager::literal (literal in range)
ManagerFactory(m, t) ==
  /\ mgrObj[m] /\ mgrEngine[m] # 0 /\ engineState[mgrEngine[m]] = "alive"
  /\ Room(m)
  /\ \E n \in Nodes, ub \in UbChoices :
       \E w \in {IntoSlot(NodeCtor(World, m, n), t, ub)} :
       Store(w, [slots EXCEPT ![t] = Obj(w.h)], elemsVec)
  /\ UNCHANGED <<mgrObj, mgrEngine, engineState, rcInit, lastCross>>

\* node::operator!, node::condition(literal), exists, forall, rename
UnaryOp(s, t) ==
  /\ slots[s].st = "obj" /\ Usable(HandleOf(s)) /\ Room(slots[s].mgr)
  /\ \E n \in Nodes, ub \in UbChoices :
       \E w \in {IntoSlot(NodeCtor(World, slots[s].mgr, n), t, ub)} :
       Store(w, [slots EXCEPT ![t] = Obj(w.h)], elemsVec)
  /\ UNCHANGED <<mgrObj, mgrEngine, engineState, rcInit, lastCross>>

BinaryGuard(a, b) ==
  /\ slots[a].st = "obj" /\ Usable(HandleOf(a))
  /\ slots[b].st = "obj" /\ Usable(HandleOf(b))
  /\ Room(slots[a].mgr) /\ Room(slots[b].mgr)

\* operator&&, operator||
BinaryOp(a, b, t) ==
  /\ BinaryGuard(a, b)
  /\ \E n \in Nodes, ub \in UbChoices :
       \E w \in {IntoSlot(BinaryCall(World, HandleOf(a), HandleOf(b), n, ub), t, ub)} :
       /\ Store(w, [slots EXCEPT ![t] = Obj(w.h)], elemsVec)
       /\ RecordBinop("conjoin/disjoin", HandleOf(a), HandleOf(b))
  /\ UNCHANGED <<mgrObj, mgrEngine, engineState, rcInit>>

\* implies
ImpliesOp(a, b, t) ==
  /\ BinaryGuard(a, b)
  /\ \E nNeg \in Nodes, n \in Nodes, ub \in UbChoices :
       \E w \in {IntoSlot(ImpliesCall(World, HandleOf(a), HandleOf(b), nNeg, n, ub), t, ub)} :
       /\ Store(w, [slots EXCEPT ![t] = Obj(w.h)], elemsVec)
       /\ RecordBinop("implies", HandleOf(a), HandleOf(b))
  /\ UNCHANGED <<mgrObj, mgrEngine, engineState, rcInit>>

\* iff
IffOp(a, b, t) ==
  /\ BinaryGuard(a, b)
  /\ \E ns \in [1..5 -> Nodes], ub \in UbChoices :
       \E w \in {IntoSlot(IffCall(World, HandleOf(a), HandleOf(b), ns, ub), t, ub)} :
       /\ Store(w, [slots EXCEPT ![t] = Obj(w.h)], elemsVec)
       /\ RecordBinop("iff", HandleOf(a), HandleOf(b))
  /\ UNCHANGED <<mgrObj, mgrEngine, engineState, rcInit>>

\* node(node const&)
CopyConstruct(s, t) ==
  /\ slots[s].st = "obj" /\ slots[t].st = "none"
  /\ \E w \in {CopyHandle(World, HandleOf(s))} :
     Store(w, [slots EXCEPT ![t] = slots[s]], elemsVec)
  /\ UNCHANGED <<mgrObj, mgrEngine, engineState, rcInit, lastCross>>

\* node(node &&): the source keeps _mgr and an empty _node
MoveConstruct(s, t) ==
  /\ slots[s].st = "obj" /\ slots[s].blk # 0 /\ slots[t].st = "none"
  /\ Store(World, [slots EXCEPT ![t] = slots[s], ![s].blk = 0], elemsVec)
  /\ UNCHANGED <<mgrObj, mgrEngine, engineState, rcInit, lastCross>>

\* node &operator=(node const&)
CopyAssign(s, t) ==
  /\ s # t /\ slots[s].st = "obj" /\ slots[t].st = "obj"
  /\ slots[s].blk # 0 \/ slots[t].blk # 0
  /\ \E ub \in UbChoices :
       \E w \in {ReleaseHandle(CopyHandle(World, HandleOf(s)), HandleOf(t), ub)} :
       Store(w, [slots EXCEPT ![t] = slots[s]], elemsVec)
  /\ UNCHANGED <<mgrObj, mgrEngine, engineState, rcInit, lastCross>>

\* node &operator=(node &&)
MoveAssign(s, t) ==
  /\ s # t /\ slots[s].st = "obj" /\ slots[t].st = "obj"
  /\ slots[s].blk # 0 \/ slots[t].blk # 0
  /\ \E ub \in UbChoices :
       \E w \in {ReleaseHandle(World, HandleOf(t), ub)} :
       Store(w, [slots EXCEPT ![t] = slots[s], ![s].blk = 0], elemsVec)
  /\ UNCHANGED <<mgrObj, mgrEngine, engineState, rcInit, lastCross>>

\* ~node()
Destroy(s) ==
  /\ slots[s].st = "obj"
  /\ \E ub \in UbChoices :
       \E w \in {ReleaseHandle(World, HandleOf(s), ub)} :
       Store(w, [slots EXCEPT ![s] = NoObject], elemsVec)
  /\ UNCHANGED <<mgrObj, mgrEngine, engineState, rcInit, lastCross>>

RECURSIVE BuildElements(_, _, _, _, _)
\* the loop of node::elements: element{node{manager(), elems[2i]},
\*                                     node{manager(), elems[2i+1]}}
BuildElements(w, m, es, i, acc) ==
  IF i > Len(es) THEN [w |-> w, vec |-> acc]
  ELSE LET w1 == NodeCtor(w, m, es[i][1])
           w2 == NodeCtor(w1, m, es[i][2])
       IN BuildElements(w2, m, es, i + 1,
                        Append(acc, [prime |-> w1.h, sub |-> w2.h]))

ElemArrays == UNION {[1..k -> Nodes \X Nodes] : k \in 1..MaxElems}

\* node::elements() on a decision node, the result kept by the client
Elements(s) ==
  /\ slots[s].st = "obj" /\ Usable(HandleOf(s)) /\ Room(slots[s].mgr)
  /\ elemsVec = <<>>
  /\ \E es \in ElemArrays :
       \E r \in {BuildElements(World, slots[s].mgr, es, 1, <<>>)} :
       Store(r.w, slots, r.vec)
  /\ UNCHANGED <<mgrObj, mgrEngine, engineState, rcInit, lastCross>>

RECURSIVE ReleaseElements(_, _, _, _)
ReleaseElements(w, vec, i, ub) ==
  IF i > Len(vec) THEN w
  ELSE ReleaseElements(
         ReleaseHandle(ReleaseHandle(w, vec[i].sub, ub), vec[i].prime, ub),
         vec, i + 1, ub)

\* ~vector<element>(): every element destroys its two nodes
DestroyElements ==
  /\ elemsVec # <<>>
  /\ \E ub \in UbChoices :
       Store(ReleaseElements(World, elemsVec, 1, ub), slots, <<>>)
  /\ UNCHANGED <<mgrObj, mgrEngine, engineState, rcInit, lastCross>>

\* node x = vec[i].prime;  node x = vec[i].sub;
CopyFromElement(i, t) ==
  /\ i \in 1..Len(elemsVec) /\ slots[t].st = "none"
  /\ \E h \in {elemsVec[i].prime, elemsVec[i].sub} :
       Store(CopyHandle(World, h), [slots EXCEPT ![t] = Obj(h)], elemsVec)
  /\ UNCHANGED <<mgrObj, mgrEngine, engineState, rcInit, lastCross>>

\* manager::manager(var_count, gc): sdd_manager_create
ManagerCreate(m) ==
  /\ ~mgrObj[m]
  /\ \E e \in Engines :
       /\ engineState[e] = "unborn"
       /\ \A f \in Engines : f < e => engineState[f] # "unborn"
       /\ mgrObj' = [mgrObj EXCEPT ![m] = TRUE]
       /\ mgrEngine' = [mgrEngine EXCEPT ![m] = e]
       /\ engineState' = [engineState EXCEPT ![e] = "alive"]
  /\ UNCHANGED <<rcInit, rc, slots, blocks, elemsVec, lastDeref, lastCross, fvars, lvars>>

\* manager(manager &&) = default: the unique_ptr moves, the source is left empty
ManagerMoveConstruct(src, dst) ==
  /\ mgrObj[src] /\ ~mgrObj[dst]
  /\ mgrObj' = [mgrObj EXCEPT ![dst] = TRUE]
  /\ mgrEngine' = [mgrEngine EXCEPT ![dst] = mgrEngine[src], ![src] = 0]
  /\ UNCHANGED <<engineState, rcInit, rc, slots, blocks, elemsVec, lastDeref, lastCross,
                 fvars, lvars>>

\* manager &operator=(manager &&) = default: the target's engine is freed
\* (sdd_manager_free), the unique_ptr moves, the source is left empty
ManagerMoveAssign(src, dst) ==
  /\ src # dst /\ mgrObj[src] /\ mgrObj[dst]
  /\ mgrEngine[src] # 0 \/ mgrEngine[dst] # 0
  /\ mgrEngine' = [mgrEngine EXCEPT ![dst] = mgrEngine[src], ![src] = 0]
  /\ engineState' = IF mgrEngine[dst] = 0 THEN engineState
                    ELSE [engineState EXCEPT ![mgrEngine[dst]] = "freed"]
  /\ UNCHANGED <<mgrObj, rcInit, rc, slots, blocks, elemsVec, lastDeref, lastCross,
                 fvars, lvars>>

InitH ==
  /\ mgrObj = [m \in Managers |-> m = 1]
  /\ mgrEngine = [m \in Managers |-> IF m = 1 THEN 1 ELSE 0]
  /\ engineState = [e \in Engines |-> IF e = 1 THEN "alive" ELSE "unborn"]
  /\ rcInit \in 0..1
  /\ rc = [e \in Engines |-> [n \in Nodes |-> rcInit]]
  /\ slots = [s \in SlotIds |-> NoObject]
  /\ blocks = [b \in BlockIds |-> FreeBlock]
  /\ elemsVec = <<>>
  /\ lastDeref = NoDeref
  /\ lastCross = NoCross

(***************************************************************************)
(* Derived algorithms: condition(lits), value(lit), model()                *)
(***************************************************************************)
MaxVars == 2
MaxLits == 3

\* an assignment is the set of its true variables, a node the set of its
\* satisfying assignments over 1..var_count
Asgs == SUBSET (1..varCount)
Lits == {l \in (-varCount)..varCount : l # 0}

\* literal::variable() and literal::operator! on literals in range
LitVar(l) == IF l > 0 THEN l ELSE -l
Neg(l) == -l
Holds(a, l) == IF l > 0 THEN l \in a ELSE (-l) \notin a
SetLit(a, l) == IF l > 0 THEN a \cup {l} ELSE a \ {-l}

\* sdd_node_is_true, sdd_node_is_false
is_valid(n) == n = Asgs
is_unsat(n) == n = {}
is_sat(n) == ~is_unsat(n)

\* node::condition(literal): sdd_condition
condition(n, l) == {a \in Asgs : SetLit(a, l) \in n}

\* sdd_variables: the bitmap of the variables n depends on
sdd_variables(n) ==
  [v \in 1..varCount |-> \E a \in Asgs : (a \in n) # ((a \cup {v}) \in n)]

RECURSIVE ProbeVariables(_, _, _, _)
ProbeVariables(bitmap, i, last, acc) ==
  IF i > last THEN acc
  ELSE ProbeVariables(bitmap, i + 1, last,
                      IF bitmap[i] THEN Append(acc, i) ELSE acc)

variables_SkipLast(n) == ProbeVariables(sdd_variables(n), 1, varCount - 1, <<>>)

\* node::variables(): for(i = 1; i <= var_count(); ++i) if(vars[i]) push_back(i)
variables(n) == ProbeVariables(sdd_variables(n), 1, varCount, <<>>)

StopCondition_OrLiteral(n) ==
  is_valid(n) \/ is_unsat(n) \/ Len(variables(n)) = 1

\* if(n.is_valid() || n.is_unsat()) break;
StopCondition(n) == is_valid(n) \/ is_unsat(n)

RECURSIVE ConditionLoop(_, _, _)
\* node::condition(std::vector<literal> const&)
ConditionLoop(n, lits, k) ==
  IF k > Len(lits) THEN n
  ELSE LET n1 == condition(n, lits[k]) IN
       IF StopCondition(n1) THEN n1 ELSE ConditionLoop(n1, lits, k + 1)

value_Swapped(n, lit) ==
  IF is_unsat(condition(n, lit)) THEN "true"
  ELSE IF is_unsat(condition(n, Neg(lit))) THEN "false"
  ELSE "nothing"

\* node::value(literal)
value(n, lit) ==
  IF is_unsat(condition(n, lit)) THEN "false"
  ELSE IF is_unsat(condition(n, Neg(lit))) THEN "true"
  ELSE "nothing"

ModelPick_NoFlip(n, v) == v

\* the literal model() settles on for variable v:
\*   lit = vars.at(i); if(n.condition(lit).is_unsat()) lit = !lit;
ModelPick(n, v) == IF is_unsat(condition(n, v)) THEN Neg(v) ELSE v

ModelVarAt_Reversed(vs, i) == vs[Len(vs) - i]

\* vars.at(i), i counted from 0, i < vars.size()
ModelVarAt(vs, i) == vs[i + 1]

LitSeqs == UNION {[1..k -> Lits] : k \in 0..MaxLits}

InitF ==
  /\ varCount \in 1..MaxVars
  /\ fnode \in SUBSET Asgs
  /\ pc = "idle"
  /\ condLits = <<>> /\ condRes = {}
  /\ valLit = 0 /\ valRes = "none"
  /\ mVars = <<>> /\ mI = 0 /\ mN = {} /\ mModel = <<>>

\* n.condition(lits)
ConditionCall(lits) ==
  /\ pc = "idle"
  /\ condLits' = lits
  /\ condRes' = ConditionLoop(fnode, lits, 1)
  /\ pc' = "condition_done"
  /\ UNCHANGED <<varCount, fnode, valLit, valRes, mVars, mI, mN, mModel, hvars, lvars>>

\* n.value(lit)
ValueCall(lit) ==
  /\ pc = "idle"
  /\ valLit' = lit
  /\ valRes' = value(fnode, lit)
  /\ pc' = "value_done"
  /\ UNCHANGED <<varCount, fnode, condLits, condRes, mVars, mI, mN, mModel, hvars, lvars>>

\* n.model(), up to the loop: vars = variables(); node n = *this; i = 0
ModelCall ==
  /\ pc = "idle"
  /\ mVars' = variables(fnode)
  /\ mN' = fnode
  /\ mI' = 0
  /\ mModel' = <<>>
  /\ pc' = "model_loop"
  /\ UNCHANGED <<varCount, fnode, condLits, condRes, valLit, valRes, hvars, lvars>>

\* one iteration of while(true) in model()
ModelIter ==
  /\ pc = "model_loop"
  /\ IF is_unsat(mN) THEN
       pc' = "model_none" /\ UNCHANGED <<mI, mN, mModel>>
     ELSE IF is_valid(mN) THEN
       pc' = "model_some" /\ UNCHANGED <<mI, mN, mModel>>
     ELSE IF mI >= Len(mVars) THEN
       pc' = "model_out_of_range" /\ UNCHANGED <<mI, mN, mModel>>
     ELSE
       LET lit == ModelPick(mN, ModelVarAt(mVars, mI)) IN
       /\ mModel' = Append(mModel, lit)
       /\ mN' = condition(mN, lit)
       /\ mI' = mI + 1
       /\ pc' = "model_loop"
  /\ UNCHANGED <<varCount, fnode, condLits, condRes, valLit, valRes, mVars, hvars, lvars>>

ParkF ==
  /\ varCount = 1 /\ fnode = {} /\ pc = "parked"
  /\ condLits = <<>> /\ condRes = {}
  /\ valLit = 0 /\ valRes = "none"
  /\ mVars = <<>> /\ mI = 0 /\ mN = {} /\ mModel = <<>>

(***************************************************************************)
(* manager::literal and the add_var_* operations                           *)
(***************************************************************************)
MaxVarCount == 3

\* A literal is a long: its sign and its magnitude hi * 2^32 + lo, kept as
\* the two 32-bit halves (unsigned is 32 bits wide, long is wider: the
\* static_assert of class variable).
LitInputs == [neg : BOOLEAN, hi : {0, 1}, lo : 0..(MaxVarCount + 1)]
NoLit == [lit |-> [neg |-> FALSE, hi |-> 0, lo |-> 0], vc |-> 0,
          threw |-> FALSE, called |-> FALSE, node |-> FALSE]

\* literal::variable(): _lit > 0 ? unsigned(_lit) : unsigned(-_lit)
\* the conversion to unsigned keeps the low 32 bits
LiteralVariable(l) == l.lo

\* the variable the literal names: its magnitude; InRange: it is in [1, vc]
InRange(l, vc) == l.hi = 0 /\ l.lo >= 1 /\ l.lo <= vc

\* manager::literal(lit)
Literal(lit) ==
  /\ lastLit' =
       IF LiteralVariable(lit) > lVarCount
       THEN [lit |-> lit, vc |-> lVarCount, threw |-> TRUE, called |-> FALSE,
             node |-> FALSE]
       ELSE [lit |-> lit, vc |-> lVarCount, threw |-> FALSE, called |-> TRUE,
             node |-> TRUE]
  /\ UNCHANGED <<lVarCount, lOrder, hvars, fvars>>

InsertAt(seq, k, v) == SubSeq(seq, 1, k - 1) \o <<v>> \o SubSeq(seq, k, Len(seq))
PosOf(seq, v) == CHOOSE k \in 1..Len(seq) : seq[k] = v

\* manager::add_var_before_first
AddVarBeforeFirst ==
  /\ lVarCount < MaxVarCount
  /\ lVarCount' = lVarCount + 1
  /\ lOrder' = <<lVarCount + 1>> \o lOrder
  /\ UNCHANGED <<lastLit, hvars, fvars>>

\* manager::add_var_after_last
AddVarAfterLast ==
  /\ lVarCount < MaxVarCount
  /\ lVarCount' = lVarCount + 1
  /\ lOrder' = Append(lOrder, lVarCount + 1)
  /\ UNCHANGED <<lastLit, hvars, fvars>>

\* manager::add_var_before(var)
AddVarBefore(var) ==
  /\ lVarCount < MaxVarCount /\ var \in 1..lVarCount
  /\ lVarCount' = lVarCount + 1
  /\ lOrder' = InsertAt(lOrder, PosOf(lOrder, var), lVarCount + 1)
  /\ UNCHANGED <<lastLit, hvars, fvars>>

\* manager::add_var_after(var)
AddVarAfter(var) ==
  /\ lVarCount < MaxVarCount /\ var \in 1..lVarCount
  /\ lVarCount' = lVarCount + 1
  /\ lOrder' = InsertAt(lOrder, PosOf(lOrder, var) + 1, lVarCount + 1)
  /\ UNCHANGED <<lastLit, hvars, fvars>>

InitL ==
  /\ lVarCount \in 1..MaxVarCount
  /\ lOrder = [i \in 1..lVarCount |-> i]
  /\ lastLit = NoLit

ParkL == lVarCount = 1 /\ lOrder = <<1>> /\ lastLit = NoLit

(***************************************************************************)
(* Specifications                                                          *)
(***************************************************************************)
ParkH == InitH /\ rcInit = 0

\* The handle operations of a client of one manager. iff() builds its result
\* from implies() and && (IffCall), whose temporaries ImpliesOp and BinaryOp
\* already put through construction and release; IffOp is a step of
\* NextManagers.
NextHandles ==
  \/ \E m \in Managers, t \in SlotIds : ManagerFactory(m, t)
  \/ \E s \in SlotIds, t \in SlotIds : UnaryOp(s, t)
  \/ \E a \in SlotIds, b \in SlotIds, t \in SlotIds : BinaryOp(a, b, t)
  \/ \E a \in SlotIds, b \in SlotIds, t \in SlotIds : ImpliesOp(a, b, t)
  \/ \E s \in SlotIds, t \in SlotIds : CopyConstruct(s, t)
  \/ \E s \in SlotIds, t \in SlotIds : MoveConstruct(s, t)
  \/ \E s \in SlotIds, t \in SlotIds : CopyAssign(s, t)
  \/ \E s \in SlotIds, t \in SlotIds : MoveAssign(s, t)
  \/ \E s \in SlotIds : Destroy(s)
  \/ \E s \in SlotIds : Elements(s)
  \/ DestroyElements
  \/ \E i \in 1..MaxElems, t \in SlotIds : CopyFromElement(i, t)

NextManagers ==
  \/ \E m \in Managers, t \in SlotIds : ManagerFactory(m, t)
  \/ \E a \in SlotIds, b \in SlotIds, t \in SlotIds : BinaryOp(a, b, t)
  \/ \E a \in SlotIds, b \in SlotIds, t \in SlotIds : ImpliesOp(a, b, t)
  \/ \E a \in SlotIds, b \in SlotIds, t \in SlotIds : IffOp(a, b, t)
  \/ \E s \in SlotIds, t \in SlotIds : CopyConstruct(s, t)
  \/ \E s \in SlotIds : Destroy(s)
  \/ \E m \in Managers : ManagerCreate(m)
  \/ \E src \in Managers, dst \in Managers : ManagerMoveConstruct(src, dst)
  \/ \E src \in Managers, dst \in Managers : ManagerMoveAssign(src, dst)

NextQuery ==
  \/ \E lits \in LitSeqs : ConditionCall(lits)
  \/ \E lit \in Lits : ValueCall(lit)
  \/ ModelCall
  \/ ModelIter

NextLiteral ==
  \/ \E lit \in LitInputs : Literal(lit)
  \/ AddVarBeforeFirst
  \/ AddVarAfterLast
  \/ \E var \in 1..MaxVarCount : AddVarBefore(var)
  \/ \E var \in 1..MaxVarCount : AddVarAfter(var)


InitHandles == InitH /\ ParkF /\ ParkL
InitQuery == ParkH /\ InitF /\ ParkL
InitLiteral == ParkH /\ ParkF /\ InitL

\* node handles of one manager
SpecHandles == InitHandles /\ [][NextHandles]_vars
\* node handles with managers created and moved
SpecManagers == InitHandles /\ [][NextManagers]_vars
\* the derived algorithms applied to every node over 1..var_count
SpecQuery == InitQuery /\ [][NextQuery]_vars
\* manager::literal
SpecLiteral == InitLiteral /\ [][NextLiteral]_vars

(***************************************************************************)
(* Claims                                                                  *)
(***************************************************************************)
SlotHandles == {HandleOf(s) : s \in {x \in SlotIds : slots[x].st = "obj" /\ slots[x].blk # 0}}
ElemHandles == UNION {{elemsVec[i].prime, elemsVec[i].sub} : i \in 1..Len(elemsVec)}
LiveHandles == SlotHandles \cup ElemHandles

\* how many handles (variables and element members) share control block b
Owners(b) ==
  Cardinality({s \in SlotIds : slots[s].st = "obj" /\ slots[s].blk = b})
  + Cardinality({i \in 1..Len(elemsVec) : elemsVec[i].prime.blk = b})
  + Cardinality({i \in 1..Len(elemsVec) : elemsVec[i].sub.blk = b})

\* the live control blocks built on engine node n of engine e
BlocksOn(e, n) ==
  {b \in BlockIds : blocks[b].uses > 0 /\ blocks[b].eng = e /\ blocks[b].node = n}

\* C1: while any handle to an engine node is alive (a variable, a copy, a
\* handle from another call that returned the same node, a member of an
\* Element), the references this layer holds on the node have not all been
\* given back: the node's count stays above the count it has without handles.
C1_NoReleaseWhileHandleAlive ==
  \A h \in LiveHandles :
    /\ blocks[h.blk].uses > 0
    /\ rc[blocks[h.blk].eng][blocks[h.blk].node] > rcInit

\* C1 witness: a deref has been issued, and an engine node is still named by
\* an Element member and by a variable built by another call.
C1_Witness ==
  /\ lastDeref # NoDeref
  /\ \E h \in SlotHandles, g \in ElemHandles :
       /\ h.blk # g.blk
       /\ blocks[h.blk].node = blocks[g.blk].node
       /\ rc[blocks[h.blk].eng][blocks[h.blk].node] = rcInit + 2

\* C2: every sdd_ref of a handle's creation is matched by one sdd_deref at the
\* release of its last copy: a node's count is the count it has without
\* handles plus one per live control block, a control block's use count is
\* the number of handles sharing it, and with no handle left the count is
\* back to the initial one.
C2_RefsMatchDerefs ==
  /\ \A e \in Engines, n \in Nodes :
       rc[e][n] = rcInit + Cardinality(BlocksOn(e, n))
  /\ \A b \in BlockIds : blocks[b].uses = Owners(b)
  /\ LiveHandles = {} => \A e \in Engines, n \in Nodes : rc[e][n] = rcInit

\* C2 witness: handles were created and the last one is gone: a deref was
\* issued, no handle is left, the count is back to its initial nonzero value.
C2_Witness ==
  /\ lastDeref # NoDeref
  /\ LiveHandles = {}
  /\ \A s \in SlotIds : slots[s].st = "none"
  /\ rcInit = 1 /\ rc[1][1] = 1

\* C8: a binary algebra operation on nodes of two managers fails with a
\* cross-manager error, builds no node and hands the engine no foreign node.
C8_CrossManagerFailsFast ==
  lastCross # NoCross =>
    lastCross.threw /\ ~lastCross.foreign /\ ~lastCross.produced

\* C10: the deref issued at the release of the last copy targets the engine
\* instance the node was ref'd in, whenever that engine is still alive.
C10_DerefTargetsRefEngine ==
  (lastDeref # NoDeref /\ lastDeref.alive) => lastDeref.target = lastDeref.refd

\* the variables n depends on
Support(n) == {v \in 1..varCount : sdd_variables(n)[v]}

RECURSIVE FoldCondition(_, _, _)
\* n conditioned on every literal of lits from the k-th on, none skipped
FoldCondition(n, lits, k) ==
  IF k > Len(lits) THEN n ELSE FoldCondition(condition(n, lits[k]), lits, k + 1)

\* C3: model(n) returns nothing exactly when n is unsat; otherwise it returns
\* literals on which n.condition(lits) is valid.
C3_ModelIffSat ==
  /\ pc # "model_out_of_range"
  /\ pc = "model_none" => is_unsat(fnode)
  /\ pc = "model_some" =>
       /\ is_sat(fnode)
       /\ is_valid(ConditionLoop(fnode, mModel, 1))
       /\ is_valid(FoldCondition(fnode, mModel, 1))

\* C3 witness: a model of two literals, the second one negative.
C3_Witness ==
  pc = "model_some" /\ Len(mModel) = 2 /\ mModel[2] < 0

\* C4 as stated: the model of a satisfiable node holds exactly one literal per
\* variable of the support.
C4_ModelCoversSupport ==
  pc = "model_some" =>
    /\ Len(mModel) = Cardinality(Support(fnode))
    /\ {LitVar(mModel[i]) : i \in 1..Len(mModel)} = Support(fnode)

\* C4 amended: the model holds at most one literal per support variable and
\* none outside the support: its variables are the first Len(model) support
\* variables in ascending order, and the support variables after them are
\* left out because n is valid once conditioned on the literals returned
\* (and on no shorter prefix of them).
C4_ModelIsSupportPrefix ==
  pc = "model_some" =>
    /\ \A i \in 1..Len(mModel) :
         /\ LitVar(mModel[i]) \in Support(fnode)
         /\ Cardinality({u \in Support(fnode) : u < LitVar(mModel[i])}) = i - 1
    /\ \A k \in 0..(Len(mModel) - 1) :
         ~is_valid(FoldCondition(fnode, SubSeq(mModel, 1, k), 1))
    /\ is_valid(FoldCondition(fnode, mModel, 1))

\* C4 witness: a model that leaves a support variable out.
C4_Witness ==
  /\ pc = "model_some"
  /\ Len(mModel) >= 1
  /\ Len(mModel) < Cardinality(Support(fnode))

\* C5: for a satisfiable n, value(n, lit) is true exactly when every
\* satisfying assignment makes lit true, false exactly when none does, and
\* nothing otherwise.
C5_ValueMeaning ==
  (pc = "value_done" /\ is_sat(fnode)) =>
    /\ valRes \in {"true", "false", "nothing"}
    /\ valRes = "true" <=> \A a \in fnode : Holds(a, valLit)
    /\ valRes = "false" <=> \A a \in fnode : ~Holds(a, valLit)
    /\ valRes = "nothing" <=>
         (\E a \in fnode : Holds(a, valLit)) /\ (\E a \in fnode : ~Holds(a, valLit))

\* C5 witness: n = literal(1) on two variables, value(n, -1) is false.
C5_Witness ==
  /\ pc = "value_done" /\ varCount = 2
  /\ fnode = {{1}, {1, 2}}
  /\ valLit = -1 /\ valRes = "false"

\* C6: manager::literal throws, without calling sdd_manager_literal or
\* building a node, for every literal whose variable is outside
\* [1, var_count()] (zero included), and returns the node otherwise.
C6_LiteralRangeChecked ==
  lastLit # NoLit =>
    IF InRange(lastLit.lit, lastLit.vc)
    THEN ~lastLit.threw /\ lastLit.called /\ lastLit.node
    ELSE lastLit.threw /\ ~lastLit.called /\ ~lastLit.node

\* C7: condition(n, lits), which stops at a valid or unsat intermediate
\* result, returns the node that conditioning on every literal in order gives.
C7_ShortCircuitEquivalence ==
  pc = "condition_done" => condRes = FoldCondition(fnode, condLits, 1)

\* C7 witness: three literals, n valid after the first: the last two are skipped.
C7_Witness ==
  /\ pc = "condition_done"
  /\ Len(condLits) = 3
  /\ ~is_valid(fnode)
  /\ is_valid(condition(fnode, condLits[1]))
  /\ LitVar(condLits[2]) # LitVar(condLits[1])

\* C9: the loop of model() ends within Len(variables(n)) iterations: vars.at(i)
\* is never called with i out of range, the residual is constant when all
\* support variables are assigned, and it is satisfiable at every loop entry
\* when n is.
C9_ModelLoopBounded ==
  /\ pc # "model_out_of_range"
  /\ mI <= Len(mVars)
  /\ pc = "model_loop" =>
       /\ mI = Len(mVars) => (is_valid(mN) \/ is_unsat(mN))
       /\ is_sat(fnode) => is_sat(mN)
       /\ Len(mModel) = mI

\* C9 witness: the loop entered with every support variable assigned, after
\* as many iterations as the support has variables.
C9_Witness ==
  /\ pc = "model_loop"
  /\ Len(mVars) = 2 /\ mI = 2
  /\ is_valid(mN)

====
